---- MODULE Spec2Model ----
(***************************************************************************)
(* The two coldstart scripts of feed-sdk: load_coldstart() fills the       *)
(* feed_coldstart table from coldstart.csv, delete_coldstart() empties it. *)
(* A text is a sequence of one-character strings, a CSV row a sequence of  *)
(* texts, the table a set of (feed_id, feed_type, position) records.       *)
(* The database keeps the committed table; the connection's transaction    *)
(* works on `pending`, which a commit publishes and a rollback (or the end *)
(* of the connection) discards.  Every call that can raise is a step that  *)
(* either completes or raises.                                             *)
(***************************************************************************)
EXTENDS Integers, Sequences, FiniteSets

VARIABLES
    csv,        \* coldstart.csv as csv.reader yields it: header, then data rows
    committed,  \* feed_coldstart as the database has it committed
    pending,    \* feed_coldstart as the open transaction of conn sees it
    before,     \* the committed table when the current run was invoked
    op,         \* the script running: "none", "load", "delete"
    pc,         \* the position of the run in its function
    connected,  \* psycopg2.connect returned in this run
    connOpen,   \* conn is held (not closed)
    curOpen,    \* cur is held (not closed)
    fileOpened, \* open(CSV_FILE) returned in this run
    position,   \* the next index enumerate(reader) hands out
    count,      \* the local count of load_coldstart
    rowcount,   \* cur.rowcount
    executes,   \* the calls of cur.execute made in this run
    applied,    \* the executes of this run that changed the table
    commits,    \* the calls of conn.commit made in this run
    rollbacks,  \* the calls of conn.rollback made in this run
    raised,     \* the exceptions raised in this run, in order
    reported,   \* the number printed by this run, -1 when nothing was printed
    prevLoadOK  \* the run before this one was a load that returned normally

vars == <<csv, committed, pending, before, op, pc, connected, connOpen, curOpen,
          fileOpened, position, count, rowcount, executes, applied, commits,
          rollbacks, raised, reported, prevLoadOK>>

----------------------------------------------------------------------------
\* Bounds and input sets

MaxRows == 3

Whitespace == {" ", "\t"}

Header == << <<"i", "d">>, <<"t">> >>

Rows ==
    { <<>>,                               \* a blank line
      << <<>>, <<"x">> >>,                \* an empty first field
      << <<" ", "\t">> >>,                \* a whitespace-only first field
      << <<"a">> >>,
      << <<" ", "a", "\t">> >>,           \* trims to "a"
      << <<"b">>, <<"x">> >>,
      << <<"a", " ", "b">> >> }           \* whitespace inside is kept

Files ==
    {<<>>} \cup
    UNION { {<<Header>> \o d : d \in [1..n -> Rows]} : n \in 0..MaxRows }

Entry(feed_id, feed_type, pos) ==
    [feed_id |-> feed_id, feed_type |-> feed_type, position |-> pos]

InitTables ==
    { {},
      {Entry(<<"a">>, "ad", 7)},
      {Entry(<<"a">>, "post", 1), Entry(<<"b">>, "post", 0)} }

----------------------------------------------------------------------------
\* str.strip()

RECURSIVE LStrip(_)
LStrip(s) ==
    IF s # <<>> /\ Head(s) \in Whitespace THEN LStrip(Tail(s)) ELSE s

RECURSIVE RStrip(_)
RStrip(s) ==
    IF s # <<>> /\ s[Len(s)] \in Whitespace
    THEN RStrip(SubSeq(s, 1, Len(s) - 1))
    ELSE s

\* faulty variant: only leading whitespace is removed
StripLeftOnly(s) ==
    LStrip(s)

Strip(s) ==
    RStrip(LStrip(s))

\* faulty variant: only `not row`
SkipOnlyEmptyRow(row) ==
    row = <<>>

\* `not row or not row[0].strip()`
SkipRow(row) ==
    IF row = <<>> THEN TRUE ELSE Strip(row[1]) = <<>>

\* faulty variant: ON CONFLICT (feed_id) DO UPDATE
InsertOrUpdate(t, e) ==
    {x \in t : x.feed_id # e.feed_id} \cup {e}

\* INSERT ... ON CONFLICT (feed_id) DO NOTHING
InsertOnConflictDoNothing(t, e) ==
    IF \E x \in t : x.feed_id = e.feed_id THEN t ELSE t \cup {e}

\* faulty variant: DELETE ... WHERE feed_type = 'post'
DeletePostsOnly(t) ==
    {x \in t : x.feed_type # "post"}

\* DELETE FROM feed_coldstart
DeleteFrom(t) ==
    {}

\* the exceptions the statements of the try block raise
TryErrors ==
    {"FileError", "StopIteration", "ReadError", "ExecuteError", "CommitError"}

Raise(e) ==
    raised' = Append(raised, e)

----------------------------------------------------------------------------
Init ==
    /\ csv \in Files
    /\ committed \in InitTables
    /\ pending = committed
    /\ before = committed
    /\ op = "none"
    /\ pc = "idle"
    /\ connected = FALSE
    /\ connOpen = FALSE
    /\ curOpen = FALSE
    /\ fileOpened = FALSE
    /\ position = 0
    /\ count = 0
    /\ rowcount = -1
    /\ executes = 0
    /\ applied = 0
    /\ commits = 0
    /\ rollbacks = 0
    /\ raised = <<>>
    /\ reported = -1
    /\ prevLoadOK = FALSE

\* a fresh process runs the script o
Invoke(o) ==
    /\ pc \in {"idle", "done"}
    /\ op' = o
    /\ pc' = "connect"
    /\ before' = committed
    /\ pending' = committed
    /\ prevLoadOK' = (op = "load" /\ pc = "done" /\ raised = <<>>)
    /\ connected' = FALSE
    /\ connOpen' = FALSE
    /\ curOpen' = FALSE
    /\ fileOpened' = FALSE
    /\ position' = 0
    /\ count' = 0
    /\ rowcount' = -1
    /\ executes' = 0
    /\ applied' = 0
    /\ commits' = 0
    /\ rollbacks' = 0
    /\ raised' = <<>>
    /\ reported' = -1
    /\ UNCHANGED <<csv, committed>>

InvokeLoad ==
    Invoke("load")

InvokeDelete ==
    Invoke("delete")

\* faulty variant: a failed connect is swallowed and the run goes on
ConnectFailureIgnored ==
    /\ pc = "connect"
    /\ \/ /\ connected' = TRUE
          /\ connOpen' = TRUE
          /\ UNCHANGED raised
       \/ /\ Raise("ConnectError")
          /\ UNCHANGED <<connected, connOpen>>
    /\ pc' = "cursor"
    /\ UNCHANGED <<csv, committed, pending, before, op, curOpen, fileOpened,
                   position, count, rowcount, executes, applied, commits,
                   rollbacks, reported, prevLoadOK>>

\* conn = psycopg2.connect(**DB_CONFIG)
Connect ==
    /\ pc = "connect"
    /\ \/ /\ connected' = TRUE
          /\ connOpen' = TRUE
          /\ pc' = "cursor"
          /\ UNCHANGED raised
       \/ /\ Raise("ConnectError")
          /\ pc' = "done"
          /\ UNCHANGED <<connected, connOpen>>
    /\ UNCHANGED <<csv, committed, pending, before, op, curOpen, fileOpened,
                   position, count, rowcount, executes, applied, commits,
                   rollbacks, reported, prevLoadOK>>

\* cur = conn.cursor(), before the try block
Cursor ==
    /\ pc = "cursor"
    /\ \/ /\ curOpen' = TRUE
          /\ pc' = IF op = "load" THEN "open" ELSE "execute"
          /\ UNCHANGED raised
       \/ /\ Raise("CursorError")
          /\ pc' = "done"
          /\ UNCHANGED curOpen
    /\ UNCHANGED <<csv, committed, pending, before, op, connected, connOpen,
                   fileOpened, position, count, rowcount, executes, applied,
                   commits, rollbacks, reported, prevLoadOK>>

\* with open(CSV_FILE, encoding="utf-8") as f: reader = csv.reader(f)
OpenFile ==
    /\ pc = "open"
    /\ \/ /\ fileOpened' = TRUE
          /\ pc' = "header"
          /\ UNCHANGED raised
       \/ /\ Raise("FileError")
          /\ pc' = "except"
          /\ UNCHANGED fileOpened
    /\ UNCHANGED <<csv, committed, pending, before, op, connected, connOpen,
                   curOpen, position, count, rowcount, executes, applied,
                   commits, rollbacks, reported, prevLoadOK>>

\* next(reader); count = 0
SkipHeader ==
    /\ pc = "header"
    /\ \/ /\ csv # <<>>
          /\ pc' = "rows"
          /\ UNCHANGED raised
       \/ /\ csv = <<>>
          /\ Raise("StopIteration")
          /\ pc' = "except"
       \/ /\ Raise("ReadError")
          /\ pc' = "except"
    /\ position' = 0
    /\ count' = 0
    /\ UNCHANGED <<csv, committed, pending, before, op, connected, connOpen,
                   curOpen, fileOpened, rowcount, executes, applied, commits,
                   rollbacks, reported, prevLoadOK>>

\* faulty variant: every insert is committed at once
ReadRowAutocommit ==
    /\ pc = "rows"
    /\ position + 1 < Len(csv)
    /\ LET row == csv[position + 2]
           new == InsertOnConflictDoNothing(
                      pending, Entry(Strip(row[1]), "post", position))
       IN  \/ /\ SkipRow(row)
              /\ position' = position + 1
              /\ UNCHANGED <<pending, committed, count, rowcount, executes,
                             applied, commits, raised, pc>>
           \/ /\ ~SkipRow(row)
              /\ pending' = new
              /\ committed' = new
              /\ commits' = commits + 1
              /\ rowcount' = IF new # pending THEN 1 ELSE 0
              /\ applied' = applied + (IF new # pending THEN 1 ELSE 0)
              /\ executes' = executes + 1
              /\ count' = count + 1
              /\ position' = position + 1
              /\ UNCHANGED <<raised, pc>>
           \/ /\ ~SkipRow(row)
              /\ executes' = executes + 1
              /\ Raise("ExecuteError")
              /\ pc' = "except"
              /\ UNCHANGED <<pending, committed, count, rowcount, applied,
                             commits, position>>
           \/ /\ Raise("ReadError")
              /\ pc' = "except"
              /\ UNCHANGED <<pending, committed, count, rowcount, executes,
                             applied, commits, position>>
    /\ UNCHANGED <<csv, before, op, connected, connOpen, curOpen,
                   fileOpened, rollbacks, reported, prevLoadOK>>

\* one turn of `for position, row in enumerate(reader)`
ReadRow ==
    /\ pc = "rows"
    /\ position + 1 < Len(csv)
    /\ LET row == csv[position + 2]
           new == InsertOnConflictDoNothing(
                      pending, Entry(Strip(row[1]), "post", position))
       IN  \/ /\ SkipRow(row)
              /\ position' = position + 1
              /\ UNCHANGED <<pending, count, rowcount, executes, applied,
                             raised, pc>>
           \/ /\ ~SkipRow(row)
              /\ pending' = new
              /\ rowcount' = IF new # pending THEN 1 ELSE 0
              /\ applied' = applied + (IF new # pending THEN 1 ELSE 0)
              /\ executes' = executes + 1
              /\ count' = count + 1
              /\ position' = position + 1
              /\ UNCHANGED <<raised, pc>>
           \/ /\ ~SkipRow(row)
              /\ executes' = executes + 1
              /\ Raise("ExecuteError")
              /\ pc' = "except"
              /\ UNCHANGED <<pending, count, rowcount, applied, position>>
           \/ /\ Raise("ReadError")
              /\ pc' = "except"
              /\ UNCHANGED <<pending, count, rowcount, executes, applied,
                             position>>
    /\ UNCHANGED <<csv, committed, before, op, connected, connOpen, curOpen,
                   fileOpened, commits, rollbacks, reported, prevLoadOK>>

\* the reader is exhausted: the for loop and the with block end
EndOfFile ==
    /\ pc = "rows"
    /\ position + 1 = Len(csv)
    /\ pc' = "commit"
    /\ UNCHANGED <<csv, committed, pending, before, op, connected, connOpen,
                   curOpen, fileOpened, position, count, rowcount, executes,
                   applied, commits, rollbacks, raised, reported, prevLoadOK>>

\* cur.execute("DELETE FROM feed_coldstart")
ExecuteDelete ==
    /\ pc = "execute"
    /\ executes' = executes + 1
    /\ \/ /\ pending' = DeleteFrom(pending)
          /\ rowcount' = Cardinality(pending \ DeleteFrom(pending))
          /\ applied' = applied + (IF DeleteFrom(pending) # pending THEN 1 ELSE 0)
          /\ pc' = "commit"
          /\ UNCHANGED raised
       \/ /\ Raise("ExecuteError")
          /\ pc' = "except"
          /\ UNCHANGED <<pending, rowcount, applied>>
    /\ UNCHANGED <<csv, committed, before, op, connected, connOpen, curOpen,
                   fileOpened, position, count, commits, rollbacks, reported,
                   prevLoadOK>>

\* conn.commit(); print(...)
Commit ==
    /\ pc = "commit"
    /\ commits' = commits + 1
    /\ \/ /\ committed' = pending
          /\ reported' = IF op = "load" THEN count ELSE rowcount
          /\ pc' = "cur_close"
          /\ UNCHANGED raised
       \/ /\ Raise("CommitError")
          /\ pc' = "except"
          /\ UNCHANGED <<committed, reported>>
    /\ UNCHANGED <<csv, pending, before, op, connected, connOpen, curOpen,
                   fileOpened, position, count, rowcount, executes, applied,
                   rollbacks, prevLoadOK>>

\* faulty variant: the handler re-raises without conn.rollback()
ReraiseWithoutRollback ==
    /\ pc = "except"
    /\ pc' = "cur_close"
    /\ UNCHANGED <<csv, committed, pending, before, op, connected, connOpen,
                   curOpen, fileOpened, position, count, rowcount, executes,
                   applied, commits, rollbacks, raised, reported, prevLoadOK>>

\* except Exception as e: conn.rollback(); raise e
Rollback ==
    /\ pc = "except"
    /\ rollbacks' = rollbacks + 1
    /\ \/ /\ pending' = committed
          /\ UNCHANGED raised
       \/ /\ Raise("RollbackError")
          /\ UNCHANGED pending
    /\ pc' = "cur_close"
    /\ UNCHANGED <<csv, committed, before, op, connected, connOpen, curOpen,
                   fileOpened, position, count, rowcount, executes, applied,
                   commits, reported, prevLoadOK>>

\* finally: cur.close()
CursorClose ==
    /\ pc = "cur_close"
    /\ \/ /\ curOpen' = FALSE
          /\ pc' = "conn_close"
          /\ UNCHANGED raised
       \/ /\ Raise("CursorCloseError")
          /\ pc' = "done"
          /\ UNCHANGED curOpen
    /\ UNCHANGED <<csv, committed, pending, before, op, connected, connOpen,
                   fileOpened, position, count, rowcount, executes, applied,
                   commits, rollbacks, reported, prevLoadOK>>

\* finally: conn.close(), which ends the transaction without committing it
ConnClose ==
    /\ pc = "conn_close"
    /\ connOpen' = FALSE
    /\ pending' = committed
    /\ pc' = "done"
    /\ UNCHANGED <<csv, committed, before, op, connected, curOpen, fileOpened,
                   position, count, rowcount, executes, applied, commits,
                   rollbacks, raised, reported, prevLoadOK>>

Next ==
    \/ InvokeLoad
    \/ InvokeDelete
    \/ Connect
    \/ Cursor
    \/ OpenFile
    \/ SkipHeader
    \/ ReadRow
    \/ EndOfFile
    \/ ExecuteDelete
    \/ Commit
    \/ Rollback
    \/ CursorClose
    \/ ConnClose

Spec == Init /\ [][Next]_vars

----------------------------------------------------------------------------
\* What the claims speak of, stated on the file and the tables themselves

\* the data rows r_0..r_{n-1}: Data[i] is r_{i-1}
Data ==
    IF csv = <<>> THEN <<>> ELSE Tail(csv)

Ink(s) ==
    {k \in 1..Len(s) : s[k] \notin Whitespace}

\* the rows that are non-empty with a first field that is not all whitespace
ValidIdx ==
    {i \in 1..Len(Data) :
        IF Data[i] = <<>> THEN FALSE ELSE Ink(Data[i][1]) # {}}

Least(S) ==
    CHOOSE k \in S : \A m \in S : k <= m

Greatest(S) ==
    CHOOSE k \in S : \A m \in S : m <= k

\* the first field of data row i without its leading and trailing whitespace
FeedIdAt(i) ==
    LET s == Data[i][1]
    IN  SubSeq(s, Least(Ink(s)), Greatest(Ink(s)))

Ids(t) ==
    {e.feed_id : e \in t}

FirstOccurrence(i) ==
    \A k \in ValidIdx : k < i => FeedIdAt(k) # FeedIdAt(i)

Unique(t) ==
    \A x \in t : \A y \in t : x.feed_id = y.feed_id => x = y

LoadReturned ==
    pc = "done" /\ op = "load" /\ raised = <<>>

DeleteReturned ==
    pc = "done" /\ op = "delete" /\ raised = <<>>

TryFailed ==
    IF raised = <<>> THEN FALSE ELSE raised[1] \in TryErrors

\* every statement of the run has been executed
AllExecuted ==
    /\ op = "load" => position = Len(Data) /\ executes = Cardinality(ValidIdx)
    /\ op = "delete" => executes = 1

----------------------------------------------------------------------------
\* C1: after a load that returned normally, the table holds, for every data
\* row with a non-blank first field whose trimmed first field was not a
\* feed_id of the table when the row was inserted (not in the table before
\* the run, not in an earlier row), the entry (trimmed field, "post", index of
\* the row among all data rows, blank ones included), and the run added no
\* other entry.
C1_PositionsNotCompacted ==
    LoadReturned =>
        /\ \A i \in ValidIdx :
              (FeedIdAt(i) \notin Ids(before) /\ FirstOccurrence(i))
                  => Entry(FeedIdAt(i), "post", i - 1) \in committed
        /\ \A e \in committed \ before :
              \E i \in ValidIdx :
                  /\ e = Entry(FeedIdAt(i), "post", i - 1)
                  /\ FeedIdAt(i) \notin Ids(before)
                  /\ FirstOccurrence(i)

\* a load returned that stored a row which follows a blank row and whose
\* first field had whitespace to trim
C1_Witness ==
    /\ LoadReturned
    /\ \E i \in ValidIdx :
          /\ \E k \in 1..(i - 1) : k \notin ValidIdx
          /\ Data[i][1] # FeedIdAt(i)
          /\ Entry(FeedIdAt(i), "post", i - 1) \in committed \ before

\* C2: the count a load reports is the number of data rows with a non-blank
\* first field, whether or not their inserts were skipped by a conflict.
C2_CountIsAttempts ==
    LoadReturned => reported = Cardinality(ValidIdx)

\* a load returned whose file had a blank row and a row skipped by conflict
C2_Witness ==
    /\ LoadReturned
    /\ Cardinality(ValidIdx) < Len(Data)
    /\ applied < reported
    /\ applied > 0

\* C3: a load that returns normally right after a load that returned
\* normally leaves the table as it found it, and every insert it made was
\* skipped by a conflict.
C3_Idempotent ==
    (LoadReturned /\ prevLoadOK) =>
        /\ committed = before
        /\ Cardinality(committed) = Cardinality(before)
        /\ applied = 0

\* the second of two loads returned, having executed two inserts or more
C3_Witness ==
    /\ LoadReturned
    /\ prevLoadOK
    /\ executes >= 2
    /\ Cardinality(committed) >= 2

\* C4: while a load runs and after it, every entry the table held before the
\* run is still in it unchanged, and no two entries of the table (committed
\* or in the transaction) share a feed_id.
C4_NeverOverwrites ==
    /\ op = "load" => before \subseteq pending /\ before \subseteq committed
    /\ Unique(committed)
    /\ Unique(pending)

\* a load returned whose file has, at another index, a feed_id of an entry
\* the table already held
C4_Witness ==
    /\ LoadReturned
    /\ \E e \in before : \E i \in ValidIdx :
          FeedIdAt(i) = e.feed_id /\ e.position # i - 1

\* C5: after a delete that returned normally the table is empty and the
\* count it reported is the number of rows the table held before the run.
C5_DeleteEmpties ==
    DeleteReturned => committed = {} /\ reported = Cardinality(before)

\* a delete returned that removed two rows or more, one of them not a "post"
C5_Witness ==
    /\ DeleteReturned
    /\ reported >= 2
    /\ \E e \in before : e.feed_type # "post"

\* C6: the committed table differs from the table before the run only after
\* the one commit of a run whose every statement executed and whose try
\* block raised nothing; a run whose try block raised (file open or read,
\* header skip, execute, commit) has called rollback once, ends with an
\* exception propagated, with the committed table as before the run, and,
\* when nothing failed after the step, with that step's exception and the
\* transaction discarded.
C6_AllOrNothing ==
    /\ committed # before =>
          /\ commits = 1
          /\ ~TryFailed
          /\ AllExecuted
          /\ committed = pending
    /\ TryFailed => committed = before
    /\ (pc = "done" /\ TryFailed) =>
          /\ rollbacks = 1
          /\ raised # <<>>
          /\ Len(raised) = 1 => pending = committed /\ ~connOpen /\ ~curOpen

\* a load ended on a failed execute after an earlier insert had been applied
C6_Witness ==
    /\ pc = "done"
    /\ op = "load"
    /\ raised = <<"ExecuteError">>
    /\ executes >= 2
    /\ committed = before

\* C7: when a run that acquired a connection has ended, the cursor and the
\* connection are released.
C7_AlwaysReleased ==
    (pc = "done" /\ connected) => ~connOpen /\ ~curOpen

\* C8: a load that has not connected has not opened the file, read no row,
\* executed no statement and written nothing.
C8_ConnectFirst ==
    (op = "load" /\ ~connected) =>
        /\ ~fileOpened
        /\ position = 0
        /\ executes = 0
        /\ commits = 0
        /\ pending = before
        /\ committed = before

\* a load ended on a failed connect, with data rows waiting in the file
C8_Witness ==
    /\ pc = "done"
    /\ op = "load"
    /\ raised = <<"ConnectError">>
    /\ ValidIdx # {}

\* C9: a run commits at most once, only when all its statements have been
\* executed; a run that returned normally committed once and never rolled
\* back.
C9_SingleCommit ==
    /\ commits <= 1
    /\ commits = 1 => AllExecuted
    /\ (LoadReturned \/ DeleteReturned) => commits = 1 /\ rollbacks = 0

\* a load returned after executing two inserts or more
C9_Witness ==
    /\ LoadReturned
    /\ executes >= 2
    /\ commits = 1

\* C10: after a load that returned normally, a feed_id that was not in the
\* table before the run and that two non-blank rows or more carry is stored
\* once, with the index of the first of these rows as position, and the
\* reported count counts every such row.
C10_FirstOccurrenceWins ==
    LoadReturned =>
        \A i \in ValidIdx : \A j \in ValidIdx :
            (/\ i < j
             /\ FeedIdAt(i) = FeedIdAt(j)
             /\ FirstOccurrence(i)
             /\ FeedIdAt(i) \notin Ids(before))
            => /\ {e \in committed : e.feed_id = FeedIdAt(i)}
                    = {Entry(FeedIdAt(i), "post", i - 1)}
               /\ reported = Cardinality(ValidIdx)
               /\ applied < reported

\* a load returned whose file carries a new feed_id in two rows that differ
\* before trimming
C10_Witness ==
    /\ LoadReturned
    /\ \E i \in ValidIdx : \E j \in ValidIdx :
          /\ i < j
          /\ FeedIdAt(i) = FeedIdAt(j)
          /\ Data[i] # Data[j]
          /\ FeedIdAt(i) \notin Ids(before)

====
